---- MODULE Spec2Model ----
(***************************************************************************)
(* Particle engine of omegga-fireworks (src/particle.ts) and the plugin    *)
(* entry points that drive it (src/omegga.plugin.ts).                      *)
(*                                                                         *)
(* Particles are numbered 1..Len(particles) in creation order; a          *)
(* reference to a particle is its number and Null is `undefined`.          *)
(* Time, lengths and velocities are integers (seconds, units, units/s).    *)
(* A Range is the pair <<lo, hi>>; the fixed number v is <<v, v>>.         *)
(* Math.random() is the nondeterministic choice among the integer points   *)
(* of the range, so every operator that samples returns the SET of its     *)
(* possible results.                                                       *)
(***************************************************************************)
EXTENDS Integers, Sequences, FiniteSets, TLC

Null == 0

\* ---- bounds of the model ------------------------------------------------
MaxParticles == 5      \* particles ever created
MaxLaunch == 2         \* `firework` commands handled
MaxTime == 4           \* seconds of simulated time
MaxDelta == 2          \* longest gap between two ticks, in seconds

\* ---- program constants --------------------------------------------------
default_gravity == -147

\* ---- inputs ---------------------------------------------------------------
\* config.update_rate values (milliseconds)
UpdateRates == {1000, 2000}
\* positions a player can launch from
Positions == {<<10, 20, 30>>}
\* integer points of the unit sphere produced by randomVelocity:
\* z = 0, theta = 0 and z = -1
UnitVectors == {<<1, 0, 0>>, <<0, 0, -1>>}

\* The definitions.  children holds the numbers of the inline child
\* definitions; numChildren <<0, 0>> with no children is an absent field.
\* inheritVelocity is the field the definition format declares.
\* Launchable are the ones the definition file names (data.defs).
Defs ==
  <<
    \* 1: a rocket in the shape of BASIC_FIREWORK
    [ velocity |-> <<<<0, 0>>, <<0, 0>>, <<4, 4>>>>, randomVelocity |-> FALSE,
      lifespan |-> <<1, 2>>, hasGravity |-> FALSE, gravity |-> <<1, 1>>,
      preSimulate |-> 0, numChildren |-> <<1, 2>>, children |-> <<2>>,
      inheritVelocity |-> FALSE ],
    \* 2: a spark that may leave one ember
    [ velocity |-> <<2, 2>>, randomVelocity |-> TRUE,
      lifespan |-> <<1, 1>>, hasGravity |-> TRUE, gravity |-> <<2, 2>>,
      preSimulate |-> 1, numChildren |-> <<0, 1>>, children |-> <<3>>,
      inheritVelocity |-> TRUE ],
    \* 3: an ember, immortal when its lifespan samples to 0
    [ velocity |-> <<0, 0>>, randomVelocity |-> FALSE,
      lifespan |-> <<0, 1>>, hasGravity |-> FALSE, gravity |-> <<1, 1>>,
      preSimulate |-> 0, numChildren |-> <<0, 0>>, children |-> <<>>,
      inheritVelocity |-> TRUE ]
  >>

Launchable == {1, 3}

VARIABLES
  config,      \* ParticleSystem.config
  root,        \* ParticleSystem.root
  particles,   \* the Particle objects, by number
  time,        \* seconds elapsed at the last tick (`time` of Plugin.init)
  hist,        \* per particle: what has been done to it (history)
  log,         \* what the last simulate call and the last action did
  hung,        \* a loop of the last action did not terminate
  loader,      \* loadParticleFile: the file's definitions and its outcome
  plugin,      \* Plugin: the uuid pool and the tick callbacks in flight
  probe,       \* a function under test: its input and its result
  stage        \* Plugin: the emitters, the shows and their timers

vars == <<config, root, particles, time, hist, log, hung, loader, plugin, probe,
         stage>>

Min(a, b) == IF a <= b THEN a ELSE b
Max(a, b) == IF a >= b THEN a ELSE b

\* ---- samplers ------------------------------------------------------------
\* computeRange: every value the draw can give, at integer granularity.
\* lo may exceed hi: the same formula mirrors the interval.
computeRange(range) == Min(range[1], range[2]) .. Max(range[1], range[2])

\* computeVecRange: a Range (length 2) is drawn once and copied to the three
\* components; a triple of Ranges is drawn component by component.
computeVecRange(range) ==
  IF Len(range) = 2
  THEN { <<a, a, a>> : a \in computeRange(range) }
  ELSE { <<a, b, c>> : a \in computeRange(range[1]),
                       b \in computeRange(range[2]),
                       c \in computeRange(range[3]) }

\* ---- Particle ------------------------------------------------------------
\* new Particle(x, y, z) with the field initialisers of the class.  onDeath
\* is the child count n its closure captured (0: no callback bound) and def
\* the definition the closure captured.
Particle(x, y, z) ==
  [ prev |-> Null, next |-> Null,
    x |-> x, y |-> y, z |-> z,
    size |-> 1, r |-> 255, g |-> 255, b |-> 255,
    vx |-> 0, vy |-> 0, vz |-> 0,
    age |-> 0, lifespan |-> 0, gravity |-> default_gravity,
    deathCalled |-> FALSE, onDeath |-> 0, def |-> 0 ]

\* simulateSpatial adding gravity to vz before it moves the particle
simulateSpatial_velocityFirst(p, delta) ==
  [ p EXCEPT !.x = p.x + p.vx * delta,
             !.y = p.y + p.vy * delta,
             !.z = p.z + (p.vz + p.gravity * delta) * delta,
             !.vz = p.vz + p.gravity * delta ]

\* Particle.simulateSpatial(delta) on the object p.
simulateSpatial(p, delta) ==
  [ p EXCEPT !.x = p.x + p.vx * delta,
             !.y = p.y + p.vy * delta,
             !.z = p.z + p.vz * delta,
             !.vz = p.vz + p.gravity * delta ]

\* The velocities `computeVecRange(def.velocity)` and the randomVelocity
\* scaling can give.
sampledVelocity(def) ==
  { <<v[1] * u[1], v[2] * u[2], v[3] * u[3]>>
    : v \in computeVecRange(def.velocity),
      u \in (IF def.randomVelocity THEN UnitVectors ELSE {<<1, 1, 1>>}) }

\* pre-simulation by def.preSimulate seconds, whatever the tick rate
preSimulateDelta_seconds(cfg, def) == def.preSimulate

\* `(system.config.update_rate / 1000) * def.preSimulate`
preSimulateDelta(cfg, def) == (cfg.update_rate \div 1000) * def.preSimulate

\* Particle.fromDef(system, def, x, y, z): every particle p it can return,
\* each with the velocity it sampled and the delta it pre-simulated by.
\* def.inheritVelocity is not read.
fromDefTrace(cfg, d, x, y, z) ==
  LET def == Defs[d] IN
  { LET p1 == [ Particle(x, y, z) EXCEPT
                  !.vx = w[1], !.vy = w[2], !.vz = w[3],
                  !.lifespan = life,
                  !.gravity = IF def.hasGravity THEN default_gravity * g
                              ELSE default_gravity ]
        p2 == IF def.preSimulate # 0
              THEN simulateSpatial(p1, preSimulateDelta(cfg, def))
              ELSE p1
        p3 == IF def.numChildren # <<0, 0>> /\ Len(def.children) # 0 /\ n # 0
              THEN [ p2 EXCEPT !.onDeath = n, !.def = d ]
              ELSE [ p2 EXCEPT !.def = d ]
    IN  [ p |-> p3, sampled |-> w,
          pre |-> IF def.preSimulate # 0 THEN preSimulateDelta(cfg, def) ELSE 0 ]
    : w \in sampledVelocity(def),
      life \in computeRange(def.lifespan),
      g \in (IF def.hasGravity THEN computeRange(def.gravity) ELSE {1}),
      n \in computeRange(def.numChildren) }

\* Particle.fromDef(system, def, x, y, z): the set of particles it can return.
fromDef(cfg, d, x, y, z) == { t.p : t \in fromDefTrace(cfg, d, x, y, z) }

\* ---- history -------------------------------------------------------------
\* What is recorded about one particle besides its fields:
\*   calls   Particle.simulate invocations in the last ParticleSystem.simulate
\*   ret     what its last Particle.simulate returned
\*   deaths  invocations of its onDeath callback
\*   again   Particle.simulate invocations made when deathCalled was set
\*   adds    addParticle calls made by its onDeath callback
\*   parent  the particle whose onDeath created it (Null: launched)
\*   origin  the position handed to its constructor
\*   kill    its position and velocity before, and the delta of, the
\*           Particle.simulate call that invoked its onDeath
\*   gen     0: created in the last ParticleSystem.simulate call,
\*           1: in the call before, 2: earlier or launched
\*   made    how fromDef made it: the velocity it sampled, the delta it
\*           pre-simulated by, the position and velocity it returned, and
\*           the velocity its parent had then (zero: launched)
NewHist(parent, origin, gen) ==
  [ calls |-> 0, ret |-> "none", deaths |-> 0, again |-> 0, adds |-> 0,
    parent |-> parent, origin |-> origin,
    kill |-> [ from |-> <<0, 0, 0>>, vel |-> <<0, 0, 0>>, delta |-> 0 ],
    gen |-> gen,
    made |-> [ sampled |-> <<0, 0, 0>>, pre |-> 0, pos |-> origin,
               vel |-> <<0, 0, 0>>, pvel |-> <<0, 0, 0>> ] ]

\* the history of a particle that fromDef returned as t
MadeHist(parent, origin, gen, t, pvel) ==
  [ NewHist(parent, origin, gen) EXCEPT
      !.made = [ sampled |-> t.sampled, pre |-> t.pre,
                 pos |-> <<t.p.x, t.p.y, t.p.z>>,
                 vel |-> <<t.p.vx, t.p.vy, t.p.vz>>, pvel |-> pvel ] ]

NoLog == [ start |-> <<>>, headDeaths |-> {}, adds |-> <<>> ]

\* The particles met by following `next` from a particle, in order; the
\* walk gives up after Len(P) + 1 nodes, so a cycle shows as a repetition.
RECURSIVE Walk(_, _, _)
Walk(P, cur, fuel) ==
  IF cur = Null \/ fuel = 0 THEN <<>>
  ELSE <<cur>> \o Walk(P, P[cur].next, fuel - 1)

Traverse(P, from) == Walk(P, from, Len(P) + 1)

Elems(seq) == { seq[i] : i \in DOMAIN seq }

\* ---- ParticleSystem.addParticle -----------------------------------------
\* `while (last.next) last = last.next`; Null when the walk does not end.
RECURSIVE lastOf(_, _, _)
lastOf(P, last, fuel) ==
  IF P[last].next = Null THEN last
  ELSE IF fuel = 0 THEN Null
  ELSE lastOf(P, P[last].next, fuel - 1)

\* addParticle appending the chain behind the last node of the list instead
\* of putting it in front of the root.
addParticle_atTail(s, particle) ==
  IF s.root = Null THEN [ s EXCEPT !.root = particle ]
  ELSE LET tail == lastOf(s.P, s.root, Len(s.P)) IN
       IF tail = Null THEN [ s EXCEPT !.hung = TRUE ]
       ELSE [ s EXCEPT !.P[tail].next = particle, !.P[particle].prev = tail ]

\* addParticle taking the chain's first node for its last.
addParticle_noWalk(s, particle) ==
  LET P1 == [ s.P EXCEPT ![particle].next = s.root ]
      P2 == IF s.root # Null THEN [ P1 EXCEPT ![s.root].prev = particle ] ELSE P1
  IN  [ s EXCEPT !.P = P2, !.root = particle ]

\* addParticle assigning this.root before it links the chain's last node
\* to it.
addParticle_rootFirst(s, particle) ==
  LET last == lastOf(s.P, particle, Len(s.P)) IN
  IF last = Null THEN [ s EXCEPT !.hung = TRUE ]
  ELSE [ s EXCEPT !.P = [ s.P EXCEPT ![last].next = particle,
                                     ![particle].prev = last ],
                  !.root = particle ]

\* The state is the record s: config, root, P (the particles), H (their
\* history), log and hung; full is set when a particle beyond MaxParticles
\* would be created, and the run is then left out.
addParticle(s, particle) ==
  LET last == lastOf(s.P, particle, Len(s.P)) IN
  IF last = Null THEN [ s EXCEPT !.hung = TRUE ]
  ELSE LET P1 == [ s.P EXCEPT ![last].next = s.root ]
           P2 == IF s.root # Null THEN [ P1 EXCEPT ![s.root].prev = last ] ELSE P1
       IN  [ s EXCEPT !.P = P2, !.root = particle ]

\* A call of addParticle, recorded: the chain handed in, the list before
\* and the list after.
callAddParticle(s, particle) ==
  LET s1 == addParticle(s, particle) IN
  [ s1 EXCEPT !.log.adds = Append(@, [ chain |-> Traverse(s.P, particle),
                                        before |-> Traverse(s.P, s.root),
                                        after |-> Traverse(s1.P, s1.root) ]) ]

\* ---- the onDeath closure bound by Particle.fromDef ------------------------
\* the loop running once more: `i <= n`
spawnMore_offByOne(s, this, i) == i <= s.P[this].onDeath

\* `for (let i = 0; i < n; i++)`
spawnMore(s, this, i) == i < s.P[this].onDeath

\* the definitions `childDef` can be
childDefs(def) ==
  IF Len(def.children) = 1 THEN { def.children[1] }
  ELSE { def.children[k] : k \in 1..Len(def.children) }

\* The loop of the closure from iteration i on, then the addParticle call:
\* the set of states it can end in.
RECURSIVE spawn(_, _, _, _, _)
spawn(s, this, i, first, cur) ==
  IF spawnMore(s, this, i) /\ Len(s.P) >= MaxParticles
  THEN { [ s EXCEPT !.full = TRUE ] }
  ELSE IF spawnMore(s, this, i)
  THEN UNION { UNION {
         LET id == Len(s.P) + 1
             child == t.p
             linked == IF first = Null THEN child ELSE [ child EXCEPT !.prev = cur ]
             P1 == Append(s.P, linked)
             P2 == IF first = Null THEN P1 ELSE [ P1 EXCEPT ![cur].next = id ]
             s1 == [ s EXCEPT !.P = P2,
                              !.H = Append(@, MadeHist(this,
                                      <<s.P[this].x, s.P[this].y, s.P[this].z>>, 0, t,
                                      <<s.P[this].vx, s.P[this].vy, s.P[this].vz>>)) ]
         IN  spawn(s1, this, i + 1, IF first = Null THEN id ELSE first, id)
         : t \in fromDefTrace(s.config, childDef,
                               s.P[this].x, s.P[this].y, s.P[this].z) }
       : childDef \in childDefs(Defs[s.P[this].def]) }
  ELSE IF first # Null
       THEN { [ callAddParticle(s, first) EXCEPT !.H[this].adds = @ + 1 ] }
       ELSE { s }

onDeath(s, this) == spawn(s, this, 0, Null, Null)

\* ---- Particle.simulate -----------------------------------------------------
\* death only once the age has passed the lifespan: `this.age > this.lifespan`
isDead_strict(p) == p.lifespan # 0 /\ p.age > p.lifespan

\* death without the test for lifespan 0
isDead_noZeroTest(p) == p.age >= p.lifespan

\* `this.lifespan !== 0 && this.age >= this.lifespan`
isDead(p) == p.lifespan # 0 /\ p.age >= p.lifespan

\* unlinking that also clears the links of the removed particle
unlink_clearsOwnLinks(P, this) ==
  LET P1 == IF P[this].prev # Null
            THEN [ P EXCEPT ![P[this].prev].next = P[this].next ] ELSE P
      P2 == IF P1[this].next # Null
            THEN [ P1 EXCEPT ![P1[this].next].prev = P1[this].prev ] ELSE P1
  IN  [ P2 EXCEPT ![this].prev = Null, ![this].next = Null ]

\* unlinking done only by the first death, inside the deathCalled test
unlink_onlyFirstDeath(P, this) ==
  IF P[this].deathCalled THEN P
  ELSE LET P1 == IF P[this].prev # Null
                 THEN [ P EXCEPT ![P[this].prev].next = P[this].next ] ELSE P
       IN  IF P1[this].next # Null
           THEN [ P1 EXCEPT ![P1[this].next].prev = P1[this].prev ] ELSE P1

\* `if (this.prev) this.prev.next = this.next;`
\* `if (this.next) this.next.prev = this.prev;`
unlink(P, this) ==
  LET P1 == IF P[this].prev # Null
            THEN [ P EXCEPT ![P[this].prev].next = P[this].next ] ELSE P
  IN  IF P1[this].next # Null
      THEN [ P1 EXCEPT ![P1[this].next].prev = P1[this].prev ] ELSE P1

\* the death block without its one-shot flag
mayCallDeath_always(p) == TRUE

\* `!this.deathCalled`
mayCallDeath(p) == ~p.deathCalled

\* Particle.simulate(delta) on particle `this`: the set of pairs of the state
\* it leaves and the value it returns.  onUpdate is never bound.
simulate(s, this, delta) ==
  LET before == s.P[this]
      moved == [ simulateSpatial(before, delta) EXCEPT !.age = @ + delta ]
      s1 == [ s EXCEPT !.P[this] = moved,
                       !.H[this].calls = @ + 1,
                       !.H[this].again = @ + (IF before.deathCalled THEN 1 ELSE 0) ]
  IN  IF isDead(moved)
      THEN LET s2 == [ s1 EXCEPT !.P = unlink(@, this), !.H[this].ret = "dead" ]
           IN  IF mayCallDeath(moved)
               THEN LET s3 == [ s2 EXCEPT !.P[this].deathCalled = TRUE ]
                        s4 == [ s3 EXCEPT
                                  !.H[this].deaths = @ + 1,
                                  !.H[this].kill =
                                     [ from |-> <<before.x, before.y, before.z>>,
                                       vel |-> <<before.vx, before.vy, before.vz>>,
                                       delta |-> delta ] ]
                    IN  { [ s |-> r, isAlive |-> FALSE ]
                          : r \in (IF moved.onDeath # 0 THEN onDeath(s4, this)
                                   ELSE { s3 }) }
               ELSE { [ s |-> s2, isAlive |-> FALSE ] }
      ELSE { [ s |-> [ s1 EXCEPT !.H[this].ret = "alive" ], isAlive |-> TRUE ] }

\* ---- ParticleSystem.simulate ---------------------------------------------
\* `if (!isAlive && cur === this.root) this.root = cur.next;`
dropHead(s, cur, isAlive) ==
  IF ~isAlive /\ cur = s.root THEN [ s EXCEPT !.root = s.P[cur].next ] ELSE s

\* `cur = cur.next;`
advance(s, cur) == s.P[cur].next

\* The loop from cursor `cur` on: the set of states it can end in.  It is
\* cut after `fuel` iterations, which marks the state as hung.
RECURSIVE simulateLoop(_, _, _, _)
simulateLoop(s, cur, delta, fuel) ==
  IF cur = Null \/ s.full THEN { s }
  ELSE IF fuel = 0 THEN { [ s EXCEPT !.hung = TRUE ] }
  ELSE UNION {
         LET wasHead == cur = s.root
             s1 == dropHead(r.s, cur, r.isAlive)
             s2 == IF wasHead /\ ~r.isAlive
                   THEN [ s1 EXCEPT !.log.headDeaths = @ \cup
                            { [ p |-> cur, next |-> r.s.P[cur].next,
                                spawned |-> Len(r.s.P) - Len(s.P),
                                rootAfter |-> s1.root ] } ]
                   ELSE s1
         IN  simulateLoop(s2, advance(s2, cur), delta, fuel - 1)
         : r \in simulate(s, cur, delta) }

systemSimulate(s, delta) == simulateLoop(s, s.root, delta, 2 * MaxParticles + 2)

\* ---- the program -----------------------------------------------------------
\* the parts of the state a specification does not use
NoLoader == [ status |-> "none" ]
NoPlugin == [ status |-> "none" ]
NoProbe == [ status |-> "none" ]
NoStage == [ status |-> "none" ]

State == [ config |-> config, root |-> root, P |-> particles, H |-> hist,
           log |-> log, hung |-> hung, full |-> FALSE ]

Install(s) ==
  /\ root' = s.root
  /\ particles' = s.P
  /\ hist' = s.H
  /\ log' = s.log
  /\ hung' = s.hung

Init ==
  /\ config \in [ update_rate : UpdateRates ]
  /\ root = Null
  /\ particles = <<>>
  /\ time = 0
  /\ hist = <<>>
  /\ log = NoLog
  /\ hung = FALSE
  /\ loader = NoLoader
  /\ plugin = NoPlugin
  /\ probe = NoProbe
  /\ stage = NoStage

\* The `firework` command: a particle of a definition of the table is created
\* at the player's position and added to the system.
Firework ==
  /\ ~hung
  /\ Len(particles) < MaxParticles
  /\ Cardinality({ i \in DOMAIN hist : hist[i].parent = Null }) < MaxLaunch
  /\ \E d \in Launchable, pos \in Positions :
       \E t \in fromDefTrace(config, d, pos[1], pos[2], pos[3]) :
         LET s0 == [ State EXCEPT !.P = Append(@, t.p),
                                  !.H = Append(@, MadeHist(Null, pos, 2, t, <<0, 0, 0>>)),
                                  !.log.adds = <<>> ]
         IN  Install(callAddParticle(s0, Len(particles) + 1))
  /\ UNCHANGED <<config, time, loader, plugin, probe, stage>>

\* One run of the simulation loop's callback up to the end of
\* ParticleSystem.simulate: delta seconds have passed since the last one.
Tick ==
  /\ ~hung
  /\ \E delta \in 1..MaxDelta :
       /\ time + delta <= MaxTime
       /\ time' = time + delta
       /\ LET s0 == [ State EXCEPT
                        !.H = [ i \in DOMAIN hist |->
                                  [ hist[i] EXCEPT !.calls = 0,
                                                   !.gen = Min(@ + 1, 2) ] ],
                        !.log = [ NoLog EXCEPT !.start = Traverse(particles, root) ] ]
          IN  \E r \in systemSimulate(s0, delta) :
                /\ ~r.full
                /\ Install(r)
  /\ UNCHANGED <<config, loader, plugin, probe, stage>>

Next == Firework \/ Tick

Spec == Init /\ [][Next]_vars

\* ---- properties ------------------------------------------------------------
List == Traverse(particles, root)

\* a particle that has not reached its lifespan
Live(i) == particles[i].lifespan = 0 \/ particles[i].age < particles[i].lifespan

NoRepeat(seq) == \A i, j \in DOMAIN seq : i # j => seq[i] # seq[j]

\* C1: after every addParticle and simulate call, following `next` from the
\* root visits exactly the live particles, each once, and no dead one.
C1_ListIsTheLiveParticles ==
  /\ NoRepeat(List)
  /\ Elems(List) = { i \in DOMAIN particles : Live(i) }

\* C2: when the head dies during a simulate call, the root no longer leads
\* to it afterwards (it is the former `next` when no child was spawned) and
\* the traversal after the tick visits exactly the live particles.
C2_DeadHeadIsDropped ==
  \A e \in log.headDeaths :
    /\ e.spawned = 0 => e.rootAfter = e.next
    /\ e.p \notin Elems(List)
    /\ Elems(List) = { i \in DOMAIN particles : Live(i) }

\* C3: a particle created by a death callback is not simulated in the
\* simulate call that created it and is simulated exactly once in the next.
C3_ChildrenWaitForNextTick ==
  \A i \in DOMAIN hist :
    /\ hist[i].gen = 0 => hist[i].calls = 0
    /\ hist[i].gen = 1 => hist[i].calls = 1

C3_Witness ==
  \E i \in DOMAIN hist :
    hist[i].parent # Null /\ hist[i].gen = 1 /\ hist[i].calls = 1

\* C4: onDeath is invoked at most once per particle, and exactly once for a
\* particle that has died, also when simulate runs on it again afterwards.
C4_OnDeathOnce ==
  \A i \in DOMAIN hist :
    /\ hist[i].deaths <= 1
    /\ (hist[i].ret = "dead" /\ particles[i].onDeath # 0) => hist[i].deaths = 1

C4_Witness ==
  \E i \in DOMAIN hist : hist[i].deaths = 1 /\ hist[i].again >= 1

\* C5: a particle of nonzero lifespan L is reported alive by every simulate
\* call that leaves its age below L and not alive by the first that does not.
C5_DiesAtLifespan ==
  \A i \in DOMAIN hist :
    particles[i].lifespan # 0 =>
      /\ hist[i].ret = "none" => particles[i].age = 0
      /\ hist[i].ret = "alive" => particles[i].age < particles[i].lifespan
      /\ hist[i].ret = "dead" => particles[i].age >= particles[i].lifespan
      /\ particles[i].age >= particles[i].lifespan => hist[i].ret = "dead"

\* lifespan 2 and 1-second ticks: dead after tick 2
C5_Witness ==
  \E i \in DOMAIN hist :
    /\ particles[i].lifespan = 2 /\ particles[i].age = 2
    /\ hist[i].ret = "dead" /\ hist[i].kill.delta = 1

\* C6: a particle of lifespan 0 is never reported not alive and never leaves
\* the list.
C6_ImmortalStays ==
  \A i \in DOMAIN hist :
    particles[i].lifespan = 0 => hist[i].ret # "dead" /\ i \in Elems(List)

C6_Witness ==
  \E i, j \in DOMAIN hist :
    /\ particles[i].lifespan = 0 /\ particles[i].age >= 3
    /\ hist[j].ret = "dead"

\* C7: every particle reachable from the root when a simulate call starts
\* is simulated exactly once in that call.
C7_EachOncePerTick ==
  \A i \in Elems(log.start) : hist[i].calls = 1

C7_Witness ==
  /\ Len(log.start) >= 3
  /\ \E e \in log.headDeaths : e.spawned > 0
  /\ \E i \in Elems(log.start) : hist[i].ret = "alive"

\* C8: the list is consistently doubly linked: the root has no `prev` and
\* every node's successor points back at it.
C8_DoublyLinked ==
  /\ root # Null => particles[root].prev = Null
  /\ \A n \in Elems(List) :
       particles[n].next # Null => particles[particles[n].next].prev = n

\* C9: addParticle(chain) makes the traversal the chain, in order, followed
\* by the previous list in its order.
C9_AddPrepends ==
  \A k \in DOMAIN log.adds :
    log.adds[k].after = log.adds[k].chain \o log.adds[k].before

C9_Witness ==
  \E k \in DOMAIN log.adds :
    Len(log.adds[k].chain) >= 2 /\ Len(log.adds[k].before) >= 2

C11_InheritsParentVelocity ==
  \A c \in DOMAIN hist :
    (hist[c].parent # Null /\ Defs[particles[c].def].inheritVelocity) =>
      LET m == hist[c].made IN
      m.vel = << m.sampled[1] + m.pvel[1],
                 m.sampled[2] + m.pvel[2],
                 m.sampled[3] + m.pvel[3] + particles[c].gravity * m.pre >>

\* the position and velocity of a particle with history h after `secs`
\* seconds of simulateSpatial from its origin with the velocity it sampled
AdvancedBy(c, secs) ==
  LET m == hist[c].made IN
  /\ m.pos = << hist[c].origin[1] + m.sampled[1] * secs,
               hist[c].origin[2] + m.sampled[2] * secs,
               hist[c].origin[3] + m.sampled[3] * secs >>
  /\ m.vel = << m.sampled[1], m.sampled[2],
               m.sampled[3] + particles[c].gravity * secs >>

\* C16: a particle made from a definition with preSimulate is returned
\* advanced by preSimulate seconds: its position by the sampled velocity
\* times preSimulate, whatever config.update_rate is.
C16_PreSimulateSeconds ==
  \A c \in DOMAIN hist :
    Defs[particles[c].def].preSimulate # 0 =>
      AdvancedBy(c, Defs[particles[c].def].preSimulate)

\* C16 as amended: the particle is advanced by preSimulate tick periods,
\* (update_rate / 1000) * preSimulate seconds, in one simulateSpatial step.
C16_PreSimulateTicks ==
  \A c \in DOMAIN hist :
    Defs[particles[c].def].preSimulate # 0 =>
      AdvancedBy(c, (config.update_rate \div 1000) * Defs[particles[c].def].preSimulate)

C16_Witness ==
  /\ config.update_rate = 2000
  /\ \E c \in DOMAIN hist :
       /\ Defs[particles[c].def].preSimulate # 0
       /\ hist[c].made.sampled # <<0, 0, 0>>
       /\ hist[c].made.pos # hist[c].origin

\* C17: the `next` chain from the root ends at the null terminator and holds
\* no particle twice, and no walk of the list (addParticle's, simulate's)
\* failed to end.
C17_ListIsAcyclic ==
  /\ ~hung
  /\ NoRepeat(List)
  /\ List # <<>> => particles[List[Len(List)]].next = Null

\* a dead head was linked behind its own children and simulated again, and
\* the list still holds particles
C17_Witness ==
  /\ Len(List) >= 2
  /\ \E p \in DOMAIN hist : hist[p].adds > 0 /\ hist[p].again > 0

StackLimit == 6        \* calls of resolveRefs the call stack can hold

\* the object standing for a member of Object.prototype
ProtoObj == 9

\* the own keys of data.defs
Table == [ a |-> 1, b |-> 2 ]
\* keys every parsed object inherits from Object.prototype
ProtoNames == { "toString" }
\* names a file may use in its references: defined, inherited, or neither
RefNames == { "a", "b", "c", "toString" }

StrRef(name) == [ str |-> name, obj |-> Null ]
ObjRef(o) == [ str |-> "", obj |-> o ]

\* `data.defs[d]`: a property read, which also finds inherited members
lookup(name) ==
  IF name \in DOMAIN Table THEN Table[name]
  ELSE IF name \in ProtoNames THEN ProtoObj
  ELSE Null

\* `const result = typeof d === 'string' ? data.defs[d] : d`
resultOf(ref) == IF ref.str # "" THEN lookup(ref.str) ELSE ref.obj

\* resolveRefs(def) at call depth `depth`, on the loader state L (heap,
\* status, depth reached): the for loop from child i on, and the map callback
\* from element k on.  A throw ends every loop: status is no longer "ok".
RECURSIVE resolveRefs(_, _, _)
RECURSIVE resolveChildren(_, _, _, _)
RECURSIVE mapDefs(_, _, _, _, _)

mapDefs(L, arr, k, out, depth) ==
  IF k > Len(arr) THEN [ L |-> L, out |-> out ]
  ELSE LET result == resultOf(arr[k]) IN
       IF result = Null
       THEN [ L |-> [ L EXCEPT !.status = "invalid_def_ref" ], out |-> out ]
       ELSE LET L1 == resolveRefs(L, result, depth + 1) IN
            IF L1.status # "ok" THEN [ L |-> L1, out |-> out ]
            ELSE mapDefs(L1, arr, k + 1, Append(out, ObjRef(result)), depth)

resolveChildren(L, def, i, depth) ==
  IF L.status # "ok" \/ i > Len(L.heap[def].children) THEN L
  ELSE LET child == L.heap[def].children[i] IN
       IF child.isArray
       THEN LET m == mapDefs(L, child.def, 1, <<>>, depth) IN
            IF m.L.status # "ok" THEN m.L
            ELSE resolveChildren(
                   [ m.L EXCEPT !.heap[def].children[i].def = m.out ],
                   def, i + 1, depth)
       ELSE LET ref == child.def[1]
                o == resultOf(ref)
                L1 == IF ref.str # ""
                      THEN [ L EXCEPT !.heap[def].children[i].def =
                                         << [ str |-> "", obj |-> o ] >> ]
                      ELSE L
            IN  IF ref.str # "" /\ o = Null
                THEN [ L1 EXCEPT !.status = "invalid_def_ref" ]
                ELSE resolveChildren(resolveRefs(L1, o, depth + 1),
                                     def, i + 1, depth)

resolveRefs(L, def, depth) ==
  IF depth > StackLimit
  THEN [ L EXCEPT !.status = "stack_overflow", !.depth = depth ]
  ELSE IF def = ProtoObj THEN [ L EXCEPT !.depth = Max(@, depth) ]
  ELSE resolveChildren([ L EXCEPT !.depth = Max(@, depth) ], def, 1, depth)

\* `for (const def of Object.values(data.defs)) resolveRefs(def)`
RECURSIVE resolveAll(_, _)
resolveAll(L, names) ==
  IF names = <<>> \/ L.status # "ok" THEN L
  ELSE resolveAll(resolveRefs(L, Table[Head(names)], 1), Tail(names))

loadParticleFile(heap) ==
  LET L == resolveAll([ heap |-> heap, status |-> "ok", depth |-> 0 ],
                      <<"a", "b">>)
  IN  [ L EXCEPT !.status = IF @ = "ok" THEN "loaded" ELSE @ ]

\* ---- the files read ---------------------------------------------------------
Single(ref) == [ isArray |-> FALSE, def |-> <<ref>> ]
Array(refs) == [ isArray |-> TRUE, def |-> refs ]

NameRefs == { StrRef(n) : n \in RefNames }

\* the child rules of data.defs.b: none, one reference, or an array of two
RulesOfB ==
  { <<>> } \cup { <<Single(r)>> : r \in NameRefs }
           \cup { <<Array(<<r1, r2>>)>> : r1 \in NameRefs, r2 \in NameRefs }

\* the child rules of data.defs.a: those, two single rules, or rules that
\* hold the inline definition
RulesOfA ==
  RulesOfB \cup { <<Single(r1), Single(r2)>> : r1 \in NameRefs, r2 \in NameRefs }
           \cup { <<Single(ObjRef(3))>> }
           \cup { <<Array(<<r, ObjRef(3)>>)>> : r \in NameRefs }

\* the child rules of the inline definition
RulesOfInline == { <<>> } \cup { <<Single(r)>> : r \in NameRefs }

HoldsInline(rules) ==
  \E i \in DOMAIN rules : \E k \in DOMAIN rules[i].def : rules[i].def[k].obj = 3

Files ==
  { << [ children |-> ra ], [ children |-> rb ], [ children |-> ri ] >>
    : ra \in RulesOfA, rb \in RulesOfB,
      ri \in RulesOfInline }

\* a file whose inline definition is not written anywhere has none
WellFormedFile(heap) == HoldsInline(heap[1].children) \/ heap[3].children = <<>>

\* a system that holds no particle and is not simulated
NoParticles ==
  /\ config = [ update_rate |-> 1000 ]
  /\ root = Null /\ particles = <<>> /\ time = 0
  /\ hist = <<>> /\ log = NoLog /\ hung = FALSE

InitLoad ==
  /\ NoParticles
  /\ plugin = NoPlugin /\ probe = NoProbe /\ stage = NoStage
  /\ \E heap \in Files :
       /\ WellFormedFile(heap)
       /\ loader = [ status |-> "read", file |-> heap, heap |-> heap, depth |-> 0 ]

\* Plugin.init calling loadParticleFile
LoadParticleFile ==
  /\ loader.status = "read"
  /\ LET L == loadParticleFile(loader.file)
     IN  loader' = [ status |-> L.status, file |-> loader.file,
                     heap |-> L.heap, depth |-> L.depth ]
  /\ UNCHANGED <<config, root, particles, time, hist, log, hung, plugin, probe, stage>>

NextLoad == LoadParticleFile

SpecLoad == InitLoad /\ [][NextLoad]_vars

\* the references of a heap: <<object, rule, position>>
RefsOf(heap) ==
  { <<o, i, k>> \in (DOMAIN heap) \X (1..2) \X (1..2) :
      i \in DOMAIN heap[o].children /\ k \in DOMAIN heap[o].children[i].def }

RefAt(heap, r) == heap[r[1]].children[r[2]].def[r[3]]

\* a reference of the file names a definition data.defs does not hold
MissingRef(file) ==
  \E r \in RefsOf(file) :
    RefAt(file, r).str # "" /\ RefAt(file, r).str \notin DOMAIN Table

\* o2 is a child definition of o1 in the file
ChildOf(file, o1, o2) ==
  \E r \in RefsOf(file) :
    /\ r[1] = o1
    /\ \/ RefAt(file, r).obj = o2
       \/ (RefAt(file, r).str \in DOMAIN Table /\ Table[RefAt(file, r).str] = o2)

\* the child references of the file form a cycle (of length 1, 2 or 3)
Cyclic(file) ==
  \E o1, o2, o3 \in DOMAIN file :
    \/ ChildOf(file, o1, o1)
    \/ ChildOf(file, o1, o2) /\ ChildOf(file, o2, o1)
    \/ ChildOf(file, o1, o2) /\ ChildOf(file, o2, o3) /\ ChildOf(file, o3, o1)

Loaded == loader.status \notin { "none", "read" }

\* C12: after a successful load no child rule holds a string, and a file
\* with a reference to a name missing from the table is rejected with
\* invalid_def_ref.
C12_ResolvedOrRejected ==
  /\ loader.status = "loaded" =>
       \A r \in RefsOf(loader.heap) : RefAt(loader.heap, r).str = ""
  /\ (Loaded /\ MissingRef(loader.file)) => loader.status = "invalid_def_ref"

\* C13: resolution ends for every file, and a file whose child references
\* form a cycle is rejected instead of being expanded without bound.
C13_CyclesRejected ==
  /\ loader.status # "stack_overflow"
  /\ (Loaded /\ Cyclic(loader.file)) => loader.status = "invalid_def_ref"

\* ---- Plugin: the uuid pool and the simulation loop -------------------------
\* A uuid is a number; uuid() returns one never seen before.  The plugin
\* state is the record pl:
\*   allUuids, freeUuids, lastUuid   the fields of Plugin
\*   inflight   the tick callbacks suspended at `await loadSaveData`, each
\*              with the uuid it took (newId) and its number of bricks
\*   running    the interval timer fires and no exception has escaped
\*   failed     executions of the catch block (history)
\*   ranAfter   ParticleSystem.simulate has run after a failure (history)

MaxStored == 1         \* uuids found in the store by Plugin.init
MaxInFlight == 2       \* tick callbacks suspended at once

\* Plugin.takeUuid: the plugin state and the uuid returned
takeUuid(pl) ==
  IF Len(pl.freeUuids) # 0
  THEN [ pl |-> [ pl EXCEPT !.freeUuids = SubSeq(@, 1, Len(@) - 1) ],
         id |-> pl.freeUuids[Len(pl.freeUuids)] ]
  ELSE [ pl |-> [ pl EXCEPT !.allUuids = Append(@, Len(@) + 1) ],
         id |-> Len(pl.allUuids) + 1 ]

\* Plugin.freeUuid
freeUuid(pl, id) == [ pl EXCEPT !.freeUuids = Append(@, id) ]

\* Plugin.generateSave for a list of `bricks` particles: the plugin state
\* and the uuid of the save
generateSave(pl, bricks) ==
  LET t == takeUuid(pl) IN
  IF bricks = 0 THEN [ pl |-> freeUuid(t.pl, t.id), id |-> t.id ] ELSE t

\* lastUuid set to the save's uuid also when the save is empty
nextLastUuid_always(bricks, newId) == newId

\* `this.lastUuid = save.bricks.length ? newId : undefined`
nextLastUuid(bricks, newId) == IF bricks # 0 THEN newId ELSE Null

\* the callback after loadSaveData: the last save's uuid is freed and
\* replaced
afterLoad(pl, bricks, newId) ==
  LET pl1 == IF pl.lastUuid # Null THEN freeUuid(pl, pl.lastUuid) ELSE pl
  IN  [ pl1 EXCEPT !.lastUuid = nextLastUuid(bricks, newId) ]

\* a catch block that throws the error on, out of the callback
catchTickError_rethrows(pl) == [ pl EXCEPT !.failed = @ + 1, !.running = FALSE ]

\* the catch block of the callback: the error is logged
catchTickError(pl) == [ pl EXCEPT !.failed = @ + 1 ]

Remove(seq, k) == SubSeq(seq, 1, k - 1) \o SubSeq(seq, k + 1, Len(seq))

\* Plugin.init up to setInterval: the stored uuids are all free
InitPlugin ==
  /\ NoParticles
  /\ loader = NoLoader /\ probe = NoProbe /\ stage = NoStage
  /\ \E n \in 0..MaxStored :
       plugin = [ allUuids |-> [ i \in 1..n |-> i ],
                  freeUuids |-> [ i \in 1..n |-> i ],
                  lastUuid |-> Null, inflight |-> <<>>, running |-> TRUE,
                  failed |-> 0, ranAfter |-> FALSE ]

\* The interval callback from its start to its first suspension:
\* ParticleSystem.simulate, generateSave, and, when there is no brick to
\* load, the rest of the callback.
TickBegin ==
  /\ ~hung /\ plugin.running
  /\ \E delta \in 1..MaxDelta :
       /\ time + delta <= MaxTime
       /\ time' = time + delta
       /\ LET s0 == [ State EXCEPT
                        !.H = [ i \in DOMAIN hist |->
                                  [ hist[i] EXCEPT !.calls = 0,
                                                   !.gen = Min(@ + 1, 2) ] ],
                        !.log = [ NoLog EXCEPT !.start = Traverse(particles, root) ] ]
          IN  \E r \in systemSimulate(s0, delta) :
                LET bricks == Len(Traverse(r.P, r.root))
                    g == generateSave([ plugin EXCEPT !.ranAfter = plugin.failed > 0 ],
                                      bricks)
                IN  /\ ~r.full
                    /\ bricks # 0 => Len(plugin.inflight) < MaxInFlight
                    /\ Install(r)
                    /\ plugin' =
                         IF bricks # 0
                         THEN [ g.pl EXCEPT !.inflight =
                                  Append(@, [ newId |-> g.id, bricks |-> bricks ]) ]
                         ELSE afterLoad(g.pl, bricks, g.id)
  /\ UNCHANGED <<config, loader, probe, stage>>

\* loadSaveData resolves for a suspended callback, which runs to its end
LoadDone ==
  /\ plugin.running
  /\ \E k \in DOMAIN plugin.inflight :
       plugin' = afterLoad([ plugin EXCEPT !.inflight = Remove(@, k) ],
                           plugin.inflight[k].bricks, plugin.inflight[k].newId)
  /\ UNCHANGED <<config, root, particles, time, hist, log, hung, loader, probe, stage>>

\* loadSaveData rejects for a suspended callback, which runs its catch block
LoadFail ==
  /\ plugin.running
  /\ \E k \in DOMAIN plugin.inflight :
       plugin' = catchTickError([ plugin EXCEPT !.inflight = Remove(@, k) ])
  /\ UNCHANGED <<config, root, particles, time, hist, log, hung, loader, probe, stage>>

NextPlugin == Firework \/ TickBegin \/ LoadDone \/ LoadFail

SpecPlugin == InitPlugin /\ [][NextPlugin]_vars

\* C14: when loadSaveData throws in a tick, the catch block leaves the
\* particle list as ParticleSystem.simulate left it and the loop running, so
\* later ticks still run simulate.
C14_FailedTickIsContained ==
  [][ plugin'.failed > plugin.failed =>
        /\ root' = root /\ particles' = particles
        /\ plugin'.running ]_vars

C14_Witness ==
  plugin.failed > 0 /\ plugin.ranAfter /\ root # Null

\* C20: freeUuids holds no uuid twice, not the current lastUuid, and no uuid
\* taken by a tick callback that still awaits its load.
C20_FreeUuidsAreFree ==
  /\ NoRepeat(plugin.freeUuids)
  /\ plugin.lastUuid \notin Elems(plugin.freeUuids)
  /\ \A k \in DOMAIN plugin.inflight :
       plugin.inflight[k].newId \notin Elems(plugin.freeUuids)

\* two callbacks await their loads while a third, later one has already
\* finished and has put a uuid on the free list
C20_Witness ==
  /\ Len(plugin.inflight) = 2
  /\ Len(plugin.freeUuids) > 0

\* C21: no uuid leaks from the pool: every uuid in allUuids is in freeUuids,
\* is lastUuid, or is held by a tick callback that still awaits its load.
C21_NoUuidLeaks ==
  \A id \in Elems(plugin.allUuids) :
    \/ id \in Elems(plugin.freeUuids)
    \/ id = plugin.lastUuid
    \/ \E k \in DOMAIN plugin.inflight : plugin.inflight[k].newId = id

\* ---- the colour of a new particle -------------------------------------------
\* Colour components are drawn as real numbers; the model keeps them as
\* numerators over ColorDen.
ColorDen == 2

\* Math.round of 255 * num / den (halves round up)
round255(num, den) == (2 * 255 * num + den) \div (2 * den)

\* hsvToRgb(h, s, v), h, s and v being numerators over ColorDen
hsvToRgb(h, s, v) ==
  LET D == ColorDen
      i == (h * 6) \div D
      f == (h * 6) % D
      vv == round255(v, D)
      p == round255(v * (D - s), D * D)
      q == round255(v * (D * D - f * s), D * D * D)
      t == round255(v * (D * D - (D - f) * s), D * D * D)
      k == i % 6
  IN  IF k = 0 THEN <<vv, t, p>>
      ELSE IF k = 1 THEN <<q, vv, p>>
      ELSE IF k = 2 THEN <<p, vv, t>>
      ELSE IF k = 3 THEN <<p, q, vv>>
      ELSE IF k = 4 THEN <<t, p, vv>>
      ELSE <<vv, p, q>>

\* computeRange(c), not rounded: the numerators over ColorDen of the draws
computeRangeReal(range) ==
  (ColorDen * Min(range[1], range[2])) .. (ColorDen * Max(range[1], range[2]))

\* the colour fields of the definitions: the two of BASIC_FIREWORK, and an
\* HSV definition with its three components in 0..1
ColorDefs ==
  << [ color |-> << <<255, 255>>, <<255, 255>>, <<255, 255>> >>, hsv |-> FALSE ],
     [ color |-> << <<0, 360>>, <<255, 255>>, <<255, 255>> >>, hsv |-> TRUE ],
     [ color |-> << <<0, 1>>, <<0, 1>>, <<0, 1>> >>, hsv |-> TRUE ] >>

\* the draws `def.color.map(...)` of Particle.fromDef
sampledColor(def) ==
  IF def.hsv
  THEN { <<a, b, c>> : a \in computeRangeReal(def.color[1]),
                       b \in computeRangeReal(def.color[2]),
                       c \in computeRangeReal(def.color[3]) }
  ELSE { <<a, b, c>> : a \in computeRange(def.color[1]),
                       b \in computeRange(def.color[2]),
                       c \in computeRange(def.color[3]) }

\* [p.r, p.g, p.b] of Particle.fromDef for one draw
colorFromDef(def, c) == IF def.hsv THEN hsvToRgb(c[1], c[2], c[3]) ELSE c

InitColor ==
  /\ NoParticles
  /\ loader = NoLoader /\ plugin = NoPlugin /\ stage = NoStage
  /\ \E d \in DOMAIN ColorDefs : \E c \in sampledColor(ColorDefs[d]) :
       probe = [ status |-> "sampled", def |-> d, c |-> c, rgb |-> <<>> ]

ColorFromDef ==
  /\ probe.status = "sampled"
  /\ probe' = [ probe EXCEPT !.status = "made",
                             !.rgb = colorFromDef(ColorDefs[probe.def], probe.c) ]
  /\ UNCHANGED <<config, root, particles, time, hist, log, hung, loader, plugin, stage>>

NextColor == ColorFromDef

SpecColor == InitColor /\ [][NextColor]_vars

\* C15: every particle made by Particle.fromDef has its r, g and b in 0..255,
\* whichever definition it is made from, the HSV child of the built-in
\* firework (hue in 0..360, saturation and value 255) included.
C15_ChannelsInRange ==
  probe.status = "made" => \A k \in 1..3 : probe.rgb[k] \in 0..255

\* ---- Particle.simulateSpatial called on its own ------------------------------
MaxSteps == 2          \* simulateSpatial calls on one particle

\* a particle as fromDef can have made it, with the given fields
SpatialParticle(v, gravity, size, r) ==
  [ Particle(10, 20, 30) EXCEPT !.vx = v[1], !.vy = v[2], !.vz = v[3],
                                !.gravity = gravity, !.size = size, !.r = r,
                                !.lifespan = 2 ]

\* Two particles in the list, the first with drawn fields; probe holds the
\* delta of the calls, the calls made on each particle and the particles as
\* they were at the start.
InitSpatial ==
  /\ config = [ update_rate |-> 1000 ]
  /\ time = 0 /\ hist = <<>> /\ log = NoLog /\ hung = FALSE
  /\ loader = NoLoader /\ plugin = NoPlugin /\ stage = NoStage
  /\ root = 1
  /\ \E v \in {<<0, 0, 4>>, <<2, -2, 0>>, <<1, 3, -4>>} :
     \E gravity \in {0, default_gravity, 2 * default_gravity} :
     \E size \in {1, 3} : \E r \in {0, 255} :
     \E delta \in 1..MaxDelta :
       /\ particles =
            << [ SpatialParticle(v, gravity, size, r) EXCEPT !.next = 2 ],
               [ SpatialParticle(<<2, 2, 2>>, default_gravity, 1, 255)
                   EXCEPT !.prev = 1 ] >>
       /\ probe = [ status |-> "spatial", delta |-> delta, n |-> <<0, 0>>,
                    start |-> particles ]

\* one call `p.simulateSpatial(delta)`
SimulateSpatial ==
  /\ probe.status = "spatial"
  /\ \E i \in DOMAIN particles :
       /\ probe.n[i] < MaxSteps
       /\ particles' = [ particles EXCEPT ![i] = simulateSpatial(@, probe.delta) ]
       /\ probe' = [ probe EXCEPT !.n[i] = @ + 1 ]
  /\ UNCHANGED <<config, root, time, hist, log, hung, loader, plugin, stage>>

NextSpatial == SimulateSpatial

SpecSpatial == InitSpatial /\ [][NextSpatial]_vars

\* the fields of a particle that simulateSpatial must leave alone
Kept(p) == << p.vx, p.vy, p.age, p.lifespan, p.gravity, p.size, p.r, p.g, p.b,
              p.prev, p.next, p.deathCalled, p.onDeath >>

\* C18: simulateSpatial(delta) on a particle moves it by its velocity before
\* the call times delta, adds gravity * delta to vz, and changes nothing
\* else: not its vx, vy, age, lifespan, colour, size or links, no other
\* particle and not the root; after n calls vz has changed by
\* gravity * delta * n.
C18_SpatialFrame ==
  [][ /\ root' = root
      /\ \A i \in DOMAIN particles :
           LET p == particles[i]
               q == particles'[i]
               delta == probe.delta
           IN  /\ probe'.n[i] = probe.n[i] => q = p
               /\ probe'.n[i] # probe.n[i] =>
                    /\ q.x = p.x + p.vx * delta
                    /\ q.y = p.y + p.vy * delta
                    /\ q.z = p.z + p.vz * delta
                    /\ q.vz = p.vz + p.gravity * delta
                    /\ Kept(q) = Kept(p)
               /\ q.vz = probe.start[i].vz + p.gravity * delta * probe'.n[i]
    ]_vars

\* a falling, moving particle has been stepped twice, the other not at all
C18_Witness ==
  /\ probe.status = "spatial"
  /\ probe.n = <<MaxSteps, 0>>
  /\ particles[1].gravity # 0 /\ particles[1].vx # 0
  /\ particles[1].vz # probe.start[1].vz

\* ---- Plugin: the `fireworks emitters` commands --------------------------------
MaxEmitters == 2       \* emitters pushed and `emitters new` commands in flight
MaxShows == 2          \* `shows start` commands that start a show
MaxFires == 2          \* emitter timer callbacks that run

\* the names typed in the commands, and String.toLowerCase on them
EmitterNames == {"a", "A", "b"}
toLowerCase(name) == IF name = "A" THEN "a" ELSE name

\* the `emitters new` commands typed: a name and its categories
NewCommands == { [ name |-> "a", categories |-> <<"c">> ],
                 [ name |-> "A", categories |-> <<"c">> ],
                 [ name |-> "b", categories |-> <<>> ] }

\* `e.name.toLowerCase() === name.toLowerCase()`
sameName(e, name) == toLowerCase(e.name) = toLowerCase(name)

\* `this.emitters.find(...)` of `emitters new`: is there such an emitter
findEmitter(emitters, name) == \E i \in DOMAIN emitters : sameName(emitters[i], name)

\* `this.emitters.filter(...)` of `emitters delete`
filterEmitters(emitters, name) == SelectSeq(emitters, LAMBDA e : sameName(e, name))

NoLast == [ op |-> "other", name |-> "", before |-> <<>> ]

InitStage ==
  /\ NoParticles
  /\ loader = NoLoader /\ plugin = NoPlugin /\ probe = NoProbe
  /\ stage = [ emitters |-> <<>>, store |-> <<>>, pending |-> <<>>,
               showActive |-> FALSE, abortShow |-> Null, threw |-> FALSE,
               shows |-> <<>>, timers |-> <<>>, fires |-> 0, last |-> NoLast ]

UnchangedSystem == UNCHANGED <<config, root, particles, time, hist, log, hung,
                               loader, plugin, probe>>

\* `emitters new <name> <categories>` up to its await of getPosition
EmittersNew ==
  /\ Len(stage.emitters) + Len(stage.pending) < MaxEmitters
  /\ \E c \in NewCommands :
       stage' = IF findEmitter(stage.emitters, c.name)
                THEN [ stage EXCEPT !.last = NoLast ]
                ELSE [ stage EXCEPT !.pending = Append(@, c), !.last = NoLast ]
  /\ UnchangedSystem

\* getPosition resolves for a suspended `emitters new`: push and saveEmitters
EmittersNewPush ==
  /\ \E k \in DOMAIN stage.pending :
       LET e == [ name |-> stage.pending[k].name, position |-> <<10, 20, 30>>,
                  categories |-> stage.pending[k].categories ]
           emitters == Append(stage.emitters, e)
       IN  stage' = [ stage EXCEPT !.pending = Remove(@, k),
                                   !.emitters = emitters,
                                   !.store = emitters,
                                   !.last = NoLast ]
  /\ UnchangedSystem

\* `emitters delete <name>`
EmittersDelete ==
  /\ \E name \in EmitterNames :
       LET filtered == filterEmitters(stage.emitters, name)
           last == [ op |-> "delete", name |-> name, before |-> stage.emitters ]
       IN  stage' = IF Len(filtered) = 0
                    THEN [ stage EXCEPT !.last = last ]
                    ELSE [ stage EXCEPT !.emitters = filtered,
                                        !.store = filtered,
                                        !.last = last ]
  /\ UnchangedSystem

NextEmitters == EmittersNew \/ EmittersNewPush \/ EmittersDelete

SpecEmitters == InitStage /\ [][NextEmitters]_vars

\* C24: `emitters delete <name>` removes the emitters whose name matches,
\* case-insensitively, and leaves every other emitter in the list and in the
\* store; when none matches the list is unchanged.
C24_DeleteRemovesOnlyTheMatch ==
  stage.last.op = "delete" =>
    LET others == SelectSeq(stage.last.before,
                            LAMBDA e : ~sameName(e, stage.last.name))
    IN  /\ stage.emitters = others
        /\ others # stage.last.before => stage.store = others

\* C25: no two emitters in the list share a name case-insensitively.
C25_NamesAreUnique ==
  \A i, j \in DOMAIN stage.emitters :
    i # j => ~sameName(stage.emitters[i], stage.emitters[j].name)

\* ---- Plugin: the `fireworks shows` commands and the timers --------------------
\* data.shows holds one show.  Its categories, each with the `defs` it sets
\* (<<>>: the category does not set defs); there is no category `other`.
ShowCategories == [ all |-> <<>>, c |-> <<3>> ]

\* `{ ...cat, ...show.categories[c] }`, for the defs key
mergeDefs(cat, c) == IF ShowCategories[c] # <<>> THEN ShowCategories[c] ELSE cat

\* the defs of `cat` after the loop over e.categories
RECURSIVE catDefs(_, _, _)
catDefs(categories, k, cat) ==
  IF k > Len(categories) THEN cat
  ELSE catDefs(categories, k + 1,
               IF categories[k] \in DOMAIN ShowCategories
               THEN mergeDefs(cat, categories[k]) ELSE cat)

\* `timeouts[name] = createTimeout()`: timeouts is a set of <<name, timer>>
setTimeoutOf(timeouts, name, t) ==
  { x \in timeouts : x[1] # name } \cup { <<name, t>> }

\* the loop `for (const e of this.emitters)` of `shows start`, from emitter k:
\* the timers and the timeouts record it leaves
RECURSIVE createTimeouts(_, _, _, _, _)
createTimeouts(emitters, k, show, timers, timeouts) ==
  IF k > Len(emitters) THEN [ timers |-> timers, timeouts |-> timeouts ]
  ELSE LET e == emitters[k]
           t == [ show |-> show, e |-> e,
                  defs |-> catDefs(e.categories, 1, ShowCategories.all),
                  state |-> "pending" ]
       IN  createTimeouts(emitters, k + 1, show, Append(timers, t),
                          setTimeoutOf(timeouts, e.name, Len(timers) + 1))

\* the body of stopTimeout's callback, without the log line
showEnded_keepsAbort(st) == [ st EXCEPT !.showActive = FALSE ]

showEnded(st) == [ st EXCEPT !.showActive = FALSE, !.abortShow = Null ]

\* clearTimeout on timer t
clearTimer(timers, t) ==
  IF timers[t].state = "pending" THEN [ timers EXCEPT ![t].state = "cleared" ]
  ELSE timers

\* `Object.values(timeouts).forEach(clearTimeout)`
clearAll(timers, timeouts) ==
  [ t \in DOMAIN timers |->
      IF \E x \in timeouts : x[2] = t THEN clearTimer(timers, t)[t] ELSE timers[t] ]

\* the closure abortShow of show a
abortShow(st, a) ==
  [ st EXCEPT
      !.showActive = FALSE,
      !.abortShow = Null,
      !.shows[a].stop = IF @ = "pending" THEN "cleared" ELSE @,
      !.timers = clearAll(@, st.shows[a].timeouts) ]

\* `shows start <name>`
ShowsStart ==
  /\ Len(stage.shows) < MaxShows
  /\ stage' =
       IF Len(stage.emitters) = 0 THEN [ stage EXCEPT !.last = NoLast ]
       ELSE LET show == Len(stage.shows) + 1
                made == createTimeouts(stage.emitters, 1, show, stage.timers, {})
            IN  [ stage EXCEPT
                    !.timers = made.timers,
                    !.shows = Append(@, [ stop |-> "pending",
                                          timeouts |-> made.timeouts,
                                          stopped |-> FALSE ]),
                    !.showActive = TRUE,
                    !.abortShow = show,
                    !.last = NoLast ]
  /\ UnchangedSystem

\* `shows stop`; a stop that goes through marks the shows started before it
ShowsStop ==
  /\ stage' =
       IF ~stage.showActive THEN [ stage EXCEPT !.last = NoLast ]
       ELSE IF stage.abortShow = Null
       THEN [ stage EXCEPT !.threw = TRUE, !.last = NoLast ]
       ELSE LET st == abortShow(stage, stage.abortShow) IN
            [ st EXCEPT
                !.shows = [ i \in DOMAIN st.shows |->
                              [ st.shows[i] EXCEPT !.stopped = TRUE ] ],
                !.last = NoLast ]
  /\ UnchangedSystem

\* stopTimeout of show a fires
ShowEnd ==
  /\ \E a \in DOMAIN stage.shows :
       /\ stage.shows[a].stop = "pending"
       /\ stage' = [ showEnded(stage) EXCEPT !.shows[a].stop = "fired",
                                             !.last = NoLast ]
  /\ UnchangedSystem

\* An emitter's timer fires.  `Date.now() < start + show.length * 1_000` is
\* false once stopTimeout has fired, and either way before.
EmitterFire ==
  /\ ~hung
  /\ stage.fires < MaxFires
  /\ Len(particles) < MaxParticles
  /\ \E t \in DOMAIN stage.timers :
       LET tm == stage.timers[t]
           st1 == [ stage EXCEPT !.timers[t].state = "fired", !.fires = @ + 1,
                                 !.last = NoLast ]
       IN  /\ tm.state = "pending"
           /\ IF tm.defs = <<>>
              THEN /\ stage' = st1
                   /\ UNCHANGED <<root, particles, hist, log, hung>>
              ELSE /\ \E k \in DOMAIN tm.defs :
                      \E tr \in fromDefTrace(config, tm.defs[k], tm.e.position[1],
                                             tm.e.position[2], tm.e.position[3]) :
                        LET s0 == [ State EXCEPT
                                      !.P = Append(@, tr.p),
                                      !.H = Append(@, MadeHist(Null, tm.e.position, 2,
                                                               tr, <<0, 0, 0>>)),
                                      !.log.adds = <<>> ]
                        IN  Install(callAddParticle(s0, Len(particles) + 1))
                   /\ \E again \in (IF stage.shows[tm.show].stop = "fired"
                                    THEN {FALSE} ELSE {TRUE, FALSE}) :
                        stage' =
                          IF again
                          THEN [ st1 EXCEPT
                                   !.timers = Append(@, [ tm EXCEPT !.state = "pending" ]),
                                   !.shows[tm.show].timeouts =
                                      setTimeoutOf(@, tm.e.name, Len(st1.timers) + 1) ]
                          ELSE st1
  /\ UNCHANGED <<config, time, loader, plugin, probe>>

NextShows ==
  \/ EmittersNew \/ EmittersNewPush
  \/ ShowsStart \/ ShowsStop \/ ShowEnd \/ EmitterFire

SpecShows == InitStage /\ [][NextShows]_vars

\* C22: after a `shows stop` that went through, no emitter timer of a show
\* started before it is pending, so none of those shows spawns a particle
\* afterwards.
C22_StopClearsEveryTimer ==
  \A t \in DOMAIN stage.timers :
    stage.timers[t].state = "pending" => ~stage.shows[stage.timers[t].show].stopped

\* C23: showActive is true exactly when abortShow is defined, and `shows
\* stop` has never called an undefined abortShow.
C23_ActiveIffAbortable ==
  /\ stage.showActive <=> stage.abortShow # Null
  /\ ~stage.threw

\* the first show has ended by its timer while the second, started during
\* it, still runs
C23_Witness ==
  /\ Len(stage.shows) = 2
  /\ stage.shows[1].stop = "fired" /\ stage.shows[2].stop = "pending"
  /\ ~stage.showActive

====
